---- MODULE Spec2Model ----
(***************************************************************************)
(* Model of the stream engine of face_rec_rk3588:                          *)
(*   ModelPool            (app/core/model_manager.py)                      *)
(*   FaceStreamPipeline   (app/core/pipeline.py)                           *)
(*   StreamManagerService (app/service/stream_manager_service.py)          *)
(*   lifespan shutdown    (app/main.py)                                    *)
(*                                                                         *)
(* Threads: one driver thread per pipeline (FaceStreamPipeline.start),     *)
(* four stage threads per pipeline, and the asyncio event loop, which runs *)
(* one coroutine segment at a time (loopBusy names the coroutine that is   *)
(* inside a synchronous segment spanning several steps).                   *)
(*                                                                         *)
(* Time is abstracted to the order of the waits in the code: a wait with a *)
(* timeout (Queue.get, Thread.join, asyncio.sleep) may expire only while   *)
(* what it waits for can be held up for that long; see AcquireSettled,     *)
(* MayOutlastJoin and DriverHeldUp.                                        *)
(***************************************************************************)
EXTENDS Integers, Sequences, FiniteSets, TLC

\* ---- bounds of the model ----
MaxStreams == 2
Capacity == 1
QueueMax == 2
MaxFrames == 3
MaxRefused == 1
MaxNow == 1
MaxFaces == 2
MaxPoolSize == 2

Streams == 1..MaxStreams
Sets == 1..Capacity
\* Python None (ids, frames and times are >= 0)
NoneV == -1
Runners == {"drv", "loop"}
Stages == {"Reader", "Preprocessor", "Inference", "Postprocessor"}
Queues == {"preprocess", "inference", "postprocess", "output"}
\* kinds of video_source: a file path, a camera index ("0"), a network URL
Sources == {"file", "cam", "rtsp"}

VARIABLES
    pool,               \* ModelPool._pool: FIFO of model sets
    killed,             \* dispose() has killed the worker processes
    nextId,             \* next fresh stream id (uuid4)
    start,              \* start_stream call of each id: none | grace | ok | busy
    active_streams,     \* StreamManagerService.active_streams: id -> info
    observed,           \* history: stop_stream calls that found each id registered
    calls,              \* stop_stream calls in flight
    loopBusy,           \* 0, or the stop_stream call running pipeline.stop()
    shut,               \* lifespan: loading | run | stopall | finished
    now,                \* datetime.now(), in minutes
    lifetime,           \* lifetime_minutes of each start_stream request
    drv,                \* driver thread: none | acquire | open | poll | stop | dead
    models,             \* FaceStreamPipeline.models
    stop_event,         \* FaceStreamPipeline.stop_event
    cap,                \* FaceStreamPipeline.cap: none | open | failed | released
    sp,                 \* place of each runner inside stop()
    source,             \* video_source kind
    released,           \* history: sets stop() has put back, per pipeline
    refused,            \* history: stop_stream calls that found no session, per id
    st,                 \* stage threads: none | loop | read/get | hold | sent/final | done
    hold,               \* item a stage has dequeued and not yet forwarded
    preprocess_queue,
    inference_queue,
    postprocess_queue,
    output_queue,
    nread,              \* frames the source has delivered
    sentinels,          \* history: sentinels enqueued into each queue
    feed,               \* get_stream_feed generator: none | run | ended | cancelled | notfound
    yielded,            \* items the generator has yielded, in order
    listing,            \* ids returned by the last get_all_active_streams_info
    detected_faces_data,\* what det_model.predict finds in each frame of a source
    aligned_faces,      \* history: the last batch given to rec_model.predict_batch
    final_results,      \* results drawn on the last frame of each pipeline
    pool_size,          \* ModelPool: maxsize of _pool, the number of sets to create
    ctor,               \* ModelPool.__init__: det | rec | built | raised
    faceop              \* the register_face / recognize_face call on the event loop

poolVars == <<pool, killed>>
mgrVars == <<nextId, start, active_streams, observed, refused, calls, loopBusy,
            shut, now, lifetime>>
histVars == <<released>>
drvVars == <<drv, models, stop_event, cap, sp, source, histVars>>
queueVars == <<preprocess_queue, inference_queue, postprocess_queue, output_queue>>
stageVars == <<st, hold, queueVars, nread, sentinels>>
recVars == <<detected_faces_data, aligned_faces, final_results>>
opVars == <<pool_size, ctor, faceop>>
feedVars == <<feed, yielded, listing, recVars, opVars>>
vars == <<poolVars, mgrVars, drvVars, stageVars, feedVars>>

\* ---------------------------------------------------------------- ModelPool

\* ModelPool.__init__: pool_size sets are put into the queue
PoolInit == [i \in 1..Capacity |-> i]

\* an acquire that hands out the first waiting set and leaves it in the pool
AcquireKeeps(pl) ==
    IF pl = <<>> THEN [models |-> NoneV, pool |-> pl]
    ELSE [models |-> Head(pl), pool |-> pl]

\* ModelPool.acquire: Queue.get(timeout); queue.Empty gives None
Acquire(pl) ==
    IF pl = <<>> THEN [models |-> NoneV, pool |-> pl]
    ELSE [models |-> Head(pl), pool |-> Tail(pl)]

\* ModelPool.release: Queue.put blocks while the queue holds pool_size items
CanRelease(pl) == Len(pl) < pool_size
Release(pl, m) == Append(pl, m)

\* ---------------------------------------------------------------- helpers

StageAlive(p, t) == st[p][t] \notin {"none", "done"}
ThreadsStarted(p) == \E t \in Stages : st[p][t] # "none"
DriverAlive(p) == drv[p] \notin {"none", "dead"}
LoopIdle == loopBusy = 0 /\ faceop.pc = "idle"
QueueFull(q) == Len(q) >= QueueMax

\* face_operation_service.py:34,66  no call is running: models = None
NoFaceOp == [pc |-> "idle", op |-> "none", models |-> NoneV, got |-> 0, put |-> 0,
             out |-> "none"]

\* no session, no request and no call exists
InitIdle ==
    /\ killed = FALSE
    /\ faceop = NoFaceOp
    /\ nextId = 1
    /\ start = [p \in Streams |-> "none"]
    /\ active_streams = <<>>
    /\ observed = [p \in Streams |-> 0]
    /\ calls = <<>>
    /\ loopBusy = 0
    /\ now = 0
    /\ lifetime = [p \in Streams |-> -1]
    /\ drv = [p \in Streams |-> "none"]
    /\ models = [p \in Streams |-> NoneV]
    /\ stop_event = [p \in Streams |-> FALSE]
    /\ cap = [p \in Streams |-> "none"]
    /\ sp = [p \in Streams |-> [r \in Runners |-> "idle"]]
    /\ source = [p \in Streams |-> "file"]
    /\ released = [p \in Streams |-> 0]
    /\ refused = [p \in Streams |-> 0]
    /\ st = [p \in Streams |-> [t \in Stages |-> "none"]]
    /\ hold = [p \in Streams |-> [t \in Stages |-> NoneV]]
    /\ preprocess_queue = [p \in Streams |-> <<>>]
    /\ inference_queue = [p \in Streams |-> <<>>]
    /\ postprocess_queue = [p \in Streams |-> <<>>]
    /\ output_queue = [p \in Streams |-> <<>>]
    /\ nread = [p \in Streams |-> 0]
    /\ sentinels = [p \in Streams |-> [q \in Queues |-> 0]]
    /\ feed = [p \in Streams |-> "none"]
    /\ yielded = [p \in Streams |-> <<>>]
    /\ listing = {}
    /\ aligned_faces = [p \in Streams |-> <<>>]
    /\ final_results = [p \in Streams |-> <<>>]

\* the state of the service when lifespan has started it
InitService ==
    /\ pool = PoolInit
    /\ pool_size = Capacity
    /\ ctor = "built"
    /\ shut = "run"
    /\ InitIdle

\* numbers of landmarks a detection can carry
LandmarkCounts == {0, 5, 6}

\* pipeline.py:194-199  a detection of the detector: its box, the number of
\* its landmarks, and whether the five points support the alignment
\* (image_utils.py:82-85, inliers)
FaceData == [bbox : 1..MaxFaces, landmarks : LandmarkCounts, inliers : BOOLEAN]

\* the results of one frame: up to MaxFaces detections with distinct boxes
DetectionResults ==
    UNION {{r \in [1..n -> FaceData] : \A i \in 1..n : r[i].bbox = i} : n \in 0..MaxFaces}

\* sources whose frames show no face
Init ==
    /\ InitService
    /\ detected_faces_data = [p \in Streams |-> [f \in 1..MaxFrames |-> <<>>]]

\* a source that shows any faces in its first or in its last frame
InitRecognize ==
    /\ InitService
    /\ \E g \in {1, MaxFrames}, r \in DetectionResults :
          detected_faces_data =
             [p \in Streams |-> [f \in 1..MaxFrames |-> IF f = g THEN r ELSE <<>>]]

\* ------------------------------------------------ FaceStreamPipeline.stop
\* A runner is the thread executing stop(): the driver (the finally of
\* start) or the event loop (stop_stream).  sp[p][r] is the runner's place:
\* idle | set | join | put | clear.

\* pipeline.py:79  if self.stop_event.is_set(): return
StopReturnsEarly(p) == stop_event[p]

\* stop() returns to runner r: the driver thread ends (pipeline.py:74-75);
\* stop_stream goes on to await the join (stream_manager_service.py:85)
Returned(p, r) ==
    IF r = "drv"
    THEN /\ drv' = [drv EXCEPT ![p] = "dead"]
         /\ UNCHANGED <<calls, loopBusy>>
    ELSE /\ calls' = [calls EXCEPT ![loopBusy].pc = "join"]
         /\ loopBusy' = 0
         /\ drv' = drv

\* pipeline.py:74-75,79  finally: self.stop(), up to the test of the stop flag
DriverFinally(p) ==
    IF StopReturnsEarly(p)
    THEN /\ drv' = [drv EXCEPT ![p] = "dead"]
         /\ sp' = sp
    ELSE /\ drv' = [drv EXCEPT ![p] = "stop"]
         /\ sp' = [sp EXCEPT ![p]["drv"] = "set"]

\* pipeline.py:80-81  self.stop_event.set()
StopSet(p, r) ==
    /\ sp[p][r] = "set"
    /\ stop_event' = [stop_event EXCEPT ![p] = TRUE]
    /\ sp' = [sp EXCEPT ![p][r] = "join"]
    /\ UNCHANGED <<feedVars, poolVars, mgrVars, drv, models, cap, source, histVars, stageVars>>

\* pipeline.py:102  if self.models:
HasModels(p) == models[p] # NoneV

\* pipeline.py:84-88  join(timeout=1.0) gives up only on a thread that is
\* held up: the reader inside cap.read() or its blocking put (:136, :153), a
\* stage inside predict or its blocking put (:165, :178, :180).  A thread
\* that polls its queue every 0.2 s (:160, :173, :190) sees the stop flag
\* before the join gives up.
MayOutlastJoin(p, t) ==
    \/ t = "Reader"
    \/ t \in {"Preprocessor", "Inference"} /\ st[p][t] = "hold"

JoinsOver(p) == \A t \in Stages : StageAlive(p, t) => MayOutlastJoin(p, t)

\* a stop() that leaves the intermediate queues as they are
NotDrained(q) == q

\* pipeline.py:96-99  while not q.empty(): q.get_nowait()
Drained(q) == <<>>

\* pipeline.py:84-102  join every stage thread (1.0 s each, may time out),
\* release the capture, empty the three intermediate queues, test self.models
StopCleanup(p, r) ==
    /\ sp[p][r] = "join"
    /\ JoinsOver(p)
    /\ cap' = [cap EXCEPT ![p] = IF @ = "open" THEN "released" ELSE @]
    /\ preprocess_queue' = [preprocess_queue EXCEPT ![p] = Drained(@)]
    /\ inference_queue' = [inference_queue EXCEPT ![p] = Drained(@)]
    /\ postprocess_queue' = [postprocess_queue EXCEPT ![p] = Drained(@)]
    /\ IF HasModels(p)
       THEN /\ sp' = [sp EXCEPT ![p][r] = "put"]
            /\ UNCHANGED <<drv, calls, loopBusy>>
       ELSE /\ sp' = [sp EXCEPT ![p][r] = "idle"]
            /\ Returned(p, r)
    /\ UNCHANGED <<feedVars, poolVars, nextId, start, active_streams, observed, refused, shut, now,
                   lifetime, models, stop_event, source, histVars,
                   st, hold, output_queue, nread, sentinels>>

\* pipeline.py:103  self.model_pool.release(self.models)
StopRelease(p, r) ==
    /\ sp[p][r] = "put"
    /\ CanRelease(pool)
    /\ pool' = Release(pool, models[p])
    /\ released' = [released EXCEPT ![p] = @ + 1]
    /\ sp' = [sp EXCEPT ![p][r] = "clear"]
    /\ UNCHANGED <<feedVars, killed, mgrVars, drv, models, stop_event, cap, source, stageVars>>

\* pipeline.py:104-109  self.models = None; stop() returns
StopClear(p, r) ==
    /\ sp[p][r] = "clear"
    /\ models' = [models EXCEPT ![p] = NoneV]
    /\ sp' = [sp EXCEPT ![p][r] = "idle"]
    /\ Returned(p, r)
    /\ UNCHANGED <<feedVars, poolVars, nextId, start, active_streams, observed, refused, shut, now,
                   lifetime, stop_event, cap, source, histVars, stageVars>>

\* ------------------------------------------- FaceStreamPipeline.start (driver)

\* pipeline.py:51-54  self.models = self.model_pool.acquire(timeout=5.0);
\* None: return, through finally
DriverAcquire(p) ==
    /\ drv[p] = "acquire"
    /\ LET r == Acquire(pool) IN
        /\ pool' = r.pool
        /\ models' = [models EXCEPT ![p] = r.models]
        /\ IF r.models = NoneV
           THEN DriverFinally(p)
           ELSE /\ drv' = [drv EXCEPT ![p] = "open"]
                /\ sp' = sp
    /\ UNCHANGED <<feedVars, killed, mgrVars, stop_event, cap, source, histVars, stageVars>>

\* pipeline.py:111-121  _start_threads
StartThreads(p) == [st EXCEPT ![p] = [t \in Stages |-> "loop"]]

\* pipeline.py:56-64  open the source; on success start the four stage
\* threads, on failure raise, through finally
DriverOpen(p) ==
    /\ drv[p] = "open"
    /\ \/ /\ cap' = [cap EXCEPT ![p] = "open"]
          /\ st' = StartThreads(p)
          /\ drv' = [drv EXCEPT ![p] = "poll"]
          /\ sp' = sp
       \/ /\ cap' = [cap EXCEPT ![p] = "failed"]
          /\ st' = st
          /\ DriverFinally(p)
    /\ UNCHANGED <<feedVars, poolVars, mgrVars, models, stop_event, source, histVars,
                   hold, queueVars, nread, sentinels>>

\* pipeline.py:66-70  the liveness poll ends on the stop flag or a dead stage
PollEnds(p) == stop_event[p] \/ ~(\A t \in Stages : StageAlive(p, t))

\* pipeline.py:66-75
DriverPollExit(p) ==
    /\ drv[p] = "poll"
    /\ PollEnds(p)
    /\ DriverFinally(p)
    /\ UNCHANGED <<feedVars, poolVars, mgrVars, models, stop_event, cap, source, histVars, stageVars>>

\* ------------------------------------------------------------ stage threads

SetSt(p, t, v) == [st EXCEPT ![p][t] = v]
SetHold(p, t, v) == [hold EXCEPT ![p][t] = v]
CountSentinel(p, q) == [sentinels EXCEPT ![p][q] = @ + 1]

\* pipeline.py:128-131  while not stop_event.is_set(); cap must be opened
ReaderCheck(p) ==
    /\ st[p]["Reader"] = "loop"
    /\ st' = SetSt(p, "Reader",
                   IF stop_event[p] \/ cap[p] # "open" THEN "sent" ELSE "read")
    /\ UNCHANGED <<feedVars, poolVars, mgrVars, drvVars, hold, queueVars, nread, sentinels>>

\* pipeline.py:135-138  is_file = not self.video_source.isdigit(): only a
\* camera index is all digits
IsFile(p) == source[p] # "cam"

\* pipeline.py:133-140  cap.read() gives no frame: EOF of a file ends the
\* loop, a camera sleeps and retries
ReaderReadFail(p) ==
    /\ st[p]["Reader"] = "read"
    /\ st' = SetSt(p, "Reader", IF IsFile(p) THEN "sent" ELSE "loop")
    /\ UNCHANGED <<feedVars, poolVars, mgrVars, drvVars, hold, queueVars, nread, sentinels>>

\* a put at the head of the queue
PutFront(q, x) == IF QueueFull(q) THEN q ELSE <<x>> \o q

\* a put that ignores the bound of the queue
PutUnbounded(q, x) == Append(q, x)

\* a put that makes room by discarding the oldest item
PutDropsOldest(q, x) == IF QueueFull(q) THEN Append(Tail(q), x) ELSE Append(q, x)

\* a put that overwrites the newest item of a full queue
PutReplacesNewest(q, x) ==
    IF QueueFull(q) THEN Append(SubSeq(q, 1, Len(q) - 1), x) ELSE Append(q, x)

\* pipeline.py:142-150  put_nowait(frame): a full queue drops the frame
PutNowait(q, x) == IF QueueFull(q) THEN q ELSE Append(q, x)

\* pipeline.py:133,142-150  cap.read() gives the next frame
ReaderReadFrame(p) ==
    /\ st[p]["Reader"] = "read"
    /\ cap[p] = "open"
    /\ nread[p] < MaxFrames
    /\ nread' = [nread EXCEPT ![p] = @ + 1]
    /\ preprocess_queue' =
          [preprocess_queue EXCEPT ![p] = PutNowait(@, nread[p] + 1)]
    /\ st' = SetSt(p, "Reader", "loop")
    /\ UNCHANGED <<feedVars, poolVars, mgrVars, drvVars, hold, inference_queue,
                   postprocess_queue, output_queue, sentinels>>

\* pipeline.py:153  self.preprocess_queue.put(None), blocking
ReaderSentinel(p) ==
    /\ st[p]["Reader"] = "sent"
    /\ ~QueueFull(preprocess_queue[p])
    /\ preprocess_queue' = [preprocess_queue EXCEPT ![p] = Append(@, NoneV)]
    /\ sentinels' = CountSentinel(p, "preprocess")
    /\ st' = SetSt(p, "Reader", "done")
    /\ UNCHANGED <<feedVars, poolVars, mgrVars, drvVars, hold, inference_queue,
                   postprocess_queue, output_queue, nread>>

\* pipeline.py:158,171  while not self.stop_event.is_set()
StageCheck(p, t) ==
    /\ st[p][t] = "loop"
    /\ st' = SetSt(p, t, IF stop_event[p] THEN "done" ELSE "get")
    /\ UNCHANGED <<feedVars, poolVars, mgrVars, drvVars, hold, queueVars, nread, sentinels>>

\* pipeline.py:160,165-166  preprocess_queue.get(timeout=0.2)
PreGet(p) ==
    /\ st[p]["Preprocessor"] = "get"
    /\ IF preprocess_queue[p] = <<>>
       THEN /\ st' = SetSt(p, "Preprocessor", "loop")
            /\ UNCHANGED <<hold, preprocess_queue>>
       ELSE /\ st' = SetSt(p, "Preprocessor", "hold")
            /\ hold' = SetHold(p, "Preprocessor", Head(preprocess_queue[p]))
            /\ preprocess_queue' = [preprocess_queue EXCEPT ![p] = Tail(@)]
    /\ UNCHANGED <<feedVars, poolVars, mgrVars, drvVars, inference_queue,
                   postprocess_queue, output_queue, nread, sentinels>>

\* a stage that goes on with its loop after forwarding the sentinel
AfterPutLoops(x) == "loop"

\* pipeline.py:161-164,174-176  after the put: break on the sentinel,
\* otherwise back to the loop test
AfterPut(x) == IF x = NoneV THEN "done" ELSE "loop"

\* pipeline.py:161-164  forward the item (blocking put); the sentinel ends the loop
PrePut(p) ==
    /\ st[p]["Preprocessor"] = "hold"
    /\ ~QueueFull(inference_queue[p])
    /\ inference_queue' =
          [inference_queue EXCEPT ![p] = Append(@, hold[p]["Preprocessor"])]
    /\ st' = SetSt(p, "Preprocessor", AfterPut(hold[p]["Preprocessor"]))
    /\ sentinels' = IF hold[p]["Preprocessor"] = NoneV
                    THEN CountSentinel(p, "inference") ELSE sentinels
    /\ hold' = SetHold(p, "Preprocessor", NoneV)
    /\ UNCHANGED <<feedVars, poolVars, mgrVars, drvVars, preprocess_queue,
                   postprocess_queue, output_queue, nread>>

\* pipeline.py:173,180-181  inference_queue.get(timeout=0.2)
InfGet(p) ==
    /\ st[p]["Inference"] = "get"
    /\ IF inference_queue[p] = <<>>
       THEN /\ st' = SetSt(p, "Inference", "loop")
            /\ UNCHANGED <<hold, inference_queue>>
       ELSE /\ st' = SetSt(p, "Inference", "hold")
            /\ hold' = SetHold(p, "Inference", Head(inference_queue[p]))
            /\ inference_queue' = [inference_queue EXCEPT ![p] = Tail(@)]
    /\ UNCHANGED <<feedVars, poolVars, mgrVars, drvVars, preprocess_queue,
                   postprocess_queue, output_queue, nread, sentinels>>

\* pipeline.py:174-179  the sentinel is forwarded and ends the loop; a frame
\* is run through det_model.predict and forwarded (blocking puts)
InfPut(p) ==
    /\ st[p]["Inference"] = "hold"
    /\ ~QueueFull(postprocess_queue[p])
    /\ postprocess_queue' =
          [postprocess_queue EXCEPT ![p] = Append(@, hold[p]["Inference"])]
    /\ st' = SetSt(p, "Inference", AfterPut(hold[p]["Inference"]))
    /\ sentinels' = IF hold[p]["Inference"] = NoneV
                    THEN CountSentinel(p, "postprocess") ELSE sentinels
    /\ hold' = SetHold(p, "Inference", NoneV)
    /\ UNCHANGED <<feedVars, poolVars, mgrVars, drvVars, preprocess_queue,
                   inference_queue, output_queue, nread>>

\* a stage thread that ends on the first error
OnErrorDies(t) == "done"

\* pipeline.py:182-183,227-228  except Exception: the error is logged and the
\* while loop goes on with its next test of the stop flag
OnError(t) == "loop"

\* pipeline.py:178,182-183  det_model.predict raises: logged, the frame is lost
InfError(p) ==
    /\ st[p]["Inference"] = "hold"
    /\ hold[p]["Inference"] # NoneV
    /\ st' = SetSt(p, "Inference", OnError("Inference"))
    /\ hold' = SetHold(p, "Inference", NoneV)
    /\ UNCHANGED <<feedVars, poolVars, mgrVars, drvVars, queueVars, nread, sentinels>>

\* pipeline.py:189  while not self.stop_event.is_set()
PostCheck(p) ==
    /\ st[p]["Postprocessor"] = "loop"
    /\ st' = SetSt(p, "Postprocessor", IF stop_event[p] THEN "final" ELSE "get")
    /\ UNCHANGED <<feedVars, poolVars, mgrVars, drvVars, hold, queueVars, nread, sentinels>>

\* image_utils.py:36  image_size=112
image_size == 112

\* image_utils.py:82-91  the image align_and_crop returns for a detection:
\* an all-zero image of the target size when estimateAffinePartial2D reports
\* no full inlier support, the warped crop otherwise; of names the detection
align_and_crop(face_data) ==
    [size |-> image_size * image_size * 3,
     zero |-> ~face_data.inliers,
     of |-> face_data.bbox]

\* a test that lets every detection through to the alignment
AnyLandmarks(face_data) == TRUE

\* pipeline.py:200  if len(landmarks) == 5
FiveLandmarks(face_data) == face_data.landmarks = 5

\* pipeline.py:198-204  the detections that are aligned and kept for the
\* batch: five landmarks, and an aligned image of size > 0
valid_faces_meta(faces) ==
    SelectSeq(faces, LAMBDA d : FiveLandmarks(d) /\ align_and_crop(d).size > 0)

\* pipeline.py:191-226  get(timeout=0.2); the sentinel breaks; the faces of a
\* frame are aligned and recognized in one batch, the results are drawn, the
\* frame is encoded and offered to the output queue (put_nowait)
PostGet(p) ==
    /\ st[p]["Postprocessor"] = "get"
    /\ IF postprocess_queue[p] = <<>>
       THEN /\ st' = SetSt(p, "Postprocessor", "loop")
            /\ UNCHANGED <<postprocess_queue, output_queue, aligned_faces, final_results>>
       ELSE /\ postprocess_queue' = [postprocess_queue EXCEPT ![p] = Tail(@)]
            /\ IF Head(postprocess_queue[p]) = NoneV
               THEN /\ st' = SetSt(p, "Postprocessor", "final")
                    /\ UNCHANGED <<output_queue, aligned_faces, final_results>>
               ELSE LET valid == valid_faces_meta(
                                    detected_faces_data[p][Head(postprocess_queue[p])])
                    IN  /\ aligned_faces' =
                              IF valid = <<>> THEN aligned_faces
                              ELSE [aligned_faces EXCEPT ![p] =
                                      [i \in DOMAIN valid |-> align_and_crop(valid[i])]]
                        /\ final_results' = [final_results EXCEPT ![p] =
                                      [i \in DOMAIN valid |-> [box |-> valid[i].bbox]]]
                        /\ st' = SetSt(p, "Postprocessor", "loop")
                        /\ output_queue' = [output_queue EXCEPT
                              ![p] = PutNowait(@, Head(postprocess_queue[p]))]
    /\ UNCHANGED <<feed, yielded, listing, detected_faces_data, opVars, poolVars, mgrVars, drvVars,
                   hold, preprocess_queue, inference_queue, nread, sentinels>>

\* pipeline.py:194-228  aligning, recognizing, drawing or encoding the frame
\* raises: logged, the frame is lost
PostError(p) ==
    /\ st[p]["Postprocessor"] = "get"
    /\ postprocess_queue[p] # <<>>
    /\ Head(postprocess_queue[p]) # NoneV
    /\ postprocess_queue' = [postprocess_queue EXCEPT ![p] = Tail(@)]
    /\ st' = SetSt(p, "Postprocessor", OnError("Postprocessor"))
    /\ UNCHANGED <<feedVars, poolVars, mgrVars, drvVars, hold, preprocess_queue,
                   inference_queue, output_queue, nread, sentinels>>

\* pipeline.py:230-234  output_queue.put_nowait(None); queue.Full is passed
PostFinal(p) ==
    /\ st[p]["Postprocessor"] = "final"
    /\ output_queue' = [output_queue EXCEPT ![p] = PutNowait(@, NoneV)]
    /\ sentinels' = [sentinels EXCEPT ![p]["output"] =
                        IF QueueFull(output_queue[p]) THEN @ ELSE @ + 1]
    /\ st' = SetSt(p, "Postprocessor", "done")
    /\ UNCHANGED <<feedVars, poolVars, mgrVars, drvVars, hold, preprocess_queue,
                   inference_queue, postprocess_queue, nread>>


\* ---- the same stage threads on a source that delivers no frame, each
\* ---- taken from its loop test to its exit in one step

\* pipeline.py:128-154  the stop flag, a closed capture or EOF ends the reading
\* loop; the sentinel is put (blocking) and the thread ends
ReaderRun(p) ==
    /\ st[p]["Reader"] = "loop"
    /\ stop_event[p] \/ cap[p] # "open" \/ IsFile(p)
    /\ ~QueueFull(preprocess_queue[p])
    /\ preprocess_queue' = [preprocess_queue EXCEPT ![p] = Append(@, NoneV)]
    /\ sentinels' = CountSentinel(p, "preprocess")
    /\ st' = SetSt(p, "Reader", "done")
    /\ UNCHANGED <<feedVars, poolVars, mgrVars, drvVars, hold, inference_queue,
                   postprocess_queue, output_queue, nread>>

\* pipeline.py:158-167  the stop flag ends the loop; a dequeued sentinel is
\* forwarded and ends it
PreRun(p) ==
    /\ st[p]["Preprocessor"] = "loop"
    /\ IF stop_event[p]
       THEN UNCHANGED <<preprocess_queue, inference_queue, sentinels>>
       ELSE /\ preprocess_queue[p] # <<>>
            /\ ~QueueFull(inference_queue[p])
            /\ preprocess_queue' = [preprocess_queue EXCEPT ![p] = Tail(@)]
            /\ inference_queue' = [inference_queue EXCEPT ![p] =
                                      Append(@, Head(preprocess_queue[p]))]
            /\ sentinels' = CountSentinel(p, "inference")
    /\ st' = SetSt(p, "Preprocessor", "done")
    /\ UNCHANGED <<feedVars, poolVars, mgrVars, drvVars, hold, postprocess_queue,
                   output_queue, nread>>

\* pipeline.py:171-184
InfRun(p) ==
    /\ st[p]["Inference"] = "loop"
    /\ IF stop_event[p]
       THEN UNCHANGED <<inference_queue, postprocess_queue, sentinels>>
       ELSE /\ inference_queue[p] # <<>>
            /\ ~QueueFull(postprocess_queue[p])
            /\ inference_queue' = [inference_queue EXCEPT ![p] = Tail(@)]
            /\ postprocess_queue' = [postprocess_queue EXCEPT ![p] =
                                        Append(@, Head(inference_queue[p]))]
            /\ sentinels' = CountSentinel(p, "postprocess")
    /\ st' = SetSt(p, "Inference", "done")
    /\ UNCHANGED <<feedVars, poolVars, mgrVars, drvVars, hold, preprocess_queue,
                   output_queue, nread>>

\* pipeline.py:189-193,230-234  the stop flag or a dequeued sentinel ends the
\* loop; put_nowait(None) on the output queue
PostRun(p) ==
    /\ st[p]["Postprocessor"] = "loop"
    /\ IF stop_event[p]
       THEN postprocess_queue' = postprocess_queue
       ELSE /\ postprocess_queue[p] # <<>>
            /\ postprocess_queue' = [postprocess_queue EXCEPT ![p] = Tail(@)]
    /\ output_queue' = [output_queue EXCEPT ![p] = PutNowait(@, NoneV)]
    /\ sentinels' = [sentinels EXCEPT ![p]["output"] =
                        IF QueueFull(output_queue[p]) THEN @ ELSE @ + 1]
    /\ st' = SetSt(p, "Postprocessor", "done")
    /\ UNCHANGED <<feedVars, poolVars, mgrVars, drvVars, hold, preprocess_queue,
                   inference_queue, nread>>

\* ------------------------------------------------- StreamManagerService

\* config.py:38  stream_default_lifetime_minutes
DefaultLifetime == 10

\* stream_manager_service.py:30-61  build the pipeline, start the driver
\* thread, then sleep 0.2 s
StartStream(src, life) ==
    /\ shut = "run"
    /\ LoopIdle
    /\ nextId <= MaxStreams
    /\ nextId' = nextId + 1
    /\ start' = [start EXCEPT ![nextId] = "grace"]
    /\ lifetime' = [lifetime EXCEPT ![nextId] = life]
    /\ source' = [source EXCEPT ![nextId] = src]
    /\ drv' = [drv EXCEPT ![nextId] = "acquire"]
    /\ UNCHANGED <<feedVars, poolVars, active_streams, observed, refused, calls, loopBusy, shut, now,
                   models, stop_event, cap, sp, histVars, stageVars>>

\* stream_manager_service.py:66-68  ActiveStreamInfo
StreamInfo(p) ==
    [stream_id |-> p, source |-> source[p], lifetime_minutes |-> lifetime[p],
     expires_at |-> IF lifetime[p] = -1 THEN NoneV ELSE now + lifetime[p]]

\* a start_stream that registers without testing the driver thread
StartNeverFails(p) == FALSE

\* stream_manager_service.py:62-63  if not process_thread.is_alive(): 503
StartFails(p) == drv[p] = "dead"

\* stream_manager_service.py:61, model_manager.py:62  the 0.2 s sleep outlasts
\* a Queue.get that finds a set waiting: when the sleep is over the driver is
\* not still about to take a set that is there for it
AcquireSettled(p) == ~(drv[p] = "acquire" /\ pool # <<>>)

\* stream_manager_service.py:62-73  after the grace sleep: 503 or register
StartStreamCheck(p) ==
    /\ start[p] = "grace"
    /\ LoopIdle
    /\ AcquireSettled(p)
    /\ IF StartFails(p)
       THEN /\ start' = [start EXCEPT ![p] = "busy"]
            /\ active_streams' = active_streams
       ELSE /\ start' = [start EXCEPT ![p] = "ok"]
            /\ active_streams' = (p :> StreamInfo(p)) @@ active_streams
    /\ UNCHANGED <<feedVars, poolVars, nextId, observed, refused, calls, loopBusy, shut, now, lifetime,
                   drvVars, stageVars>>

\* a lookup that leaves the entry in the registry
PoppedKeeps(reg, sid) == reg

\* stream_manager_service.py:77  self.active_streams.pop(stream_id, None)
Popped(reg, sid) == [x \in (DOMAIN reg) \ {sid} |-> reg[x]]

\* a stop_stream call in flight; held records whether the pipeline held a
\* set when the call found its session
NewCall(sid, pc, origin) ==
    [sid |-> sid, pc |-> pc, origin |-> origin, held |-> FALSE]
Without(cs, k) == SubSeq(cs, 1, k - 1) \o SubSeq(cs, k + 1, Len(cs))

\* stream_manager_service.py:76-87  stop_stream up to its first await: pop
\* under the lock; False when the id is absent; pipeline.stop() is called when
\* the driver is alive, and True is returned at once when it is dead.
\* cs holds the calls that stay in flight, c is this call.
BeginStop(cs, c) ==
    LET sid == c.sid
        present == sid \in DOMAIN active_streams
    IN  /\ active_streams' = Popped(active_streams, sid)
        /\ observed' = [observed EXCEPT ![sid] = IF present THEN @ + 1 ELSE @]
        /\ refused' = [refused EXCEPT
                          ![sid] = IF ~present /\ @ < MaxRefused THEN @ + 1 ELSE @]
        /\ IF present /\ DriverAlive(sid)
           THEN IF StopReturnsEarly(sid)
                THEN /\ calls' = Append(cs, [c EXCEPT !.pc = "join",
                                                      !.held = HasModels(sid)])
                     /\ UNCHANGED <<loopBusy, sp>>
                ELSE /\ calls' = Append(cs, [c EXCEPT !.pc = "stop",
                                                      !.held = HasModels(sid)])
                     /\ loopBusy' = Len(cs) + 1
                     /\ sp' = [sp EXCEPT ![sid]["loop"] = "set"]
           ELSE /\ calls' = cs
                /\ UNCHANGED <<loopBusy, sp>>

\* stream_manager_service.py:75-84  stop_stream called by a request
StopStream(sid) ==
    /\ shut = "run"
    /\ LoopIdle
    /\ BeginStop(calls, NewCall(sid, "init", "user"))
    /\ UNCHANGED <<feedVars, poolVars, nextId, start, shut, now, lifetime,
                   drv, models, stop_event, cap, source, released, stageVars>>

\* stream_manager_service.py:75-84  stop_stream started by gather
StopStreamBegin(k) ==
    /\ calls[k].pc = "init"
    /\ LoopIdle
    /\ BeginStop(Without(calls, k), calls[k])
    /\ UNCHANGED <<feedVars, poolVars, nextId, start, shut, now, lifetime,
                   drv, models, stop_event, cap, source, released, stageVars>>

\* stream_manager_service.py:85  join(timeout=5.0) gives up only on a driver
\* that is held up: opening its source (pipeline.py:59) or putting its set
\* back into a full pool (model_manager.py:73); acquire (5.0 s, begun
\* earlier), the poll sleep (1 s) and the stage joins (4 x 1.0 s) end sooner
DriverHeldUp(p) ==
    \/ drv[p] = "open"
    \/ sp[p]["drv"] = "put" /\ ~CanRelease(pool)

\* stream_manager_service.py:85-87  thread.join(timeout=5.0) came back (the
\* driver ended, or the timeout expired); the call returns True
StopStreamReturn(k) ==
    /\ calls[k].pc = "join"
    /\ LoopIdle
    /\ ~DriverAlive(calls[k].sid) \/ DriverHeldUp(calls[k].sid)
    /\ calls' = Without(calls, k)
    /\ UNCHANGED <<feedVars, poolVars, nextId, start, active_streams, observed, refused, loopBusy,
                   shut, now, lifetime, drvVars, stageVars>>

\* ------------------------------------------------------- get_stream_feed

\* a generator that starts without looking the id up
FeedOpenUnchecked(p) ==
    /\ feed[p] \in {"none", "notfound"}
    /\ LoopIdle
    /\ feed' = [feed EXCEPT ![p] = "run"]
    /\ UNCHANGED <<poolVars, mgrVars, drvVars, stageVars, yielded, listing, recVars, opVars>>

\* stream_manager_service.py:92-97  the session is looked up under the lock;
\* an absent id raises 404, otherwise the generator keeps the queue and the
\* driver thread of the session
FeedOpen(p) ==
    /\ feed[p] \in {"none", "notfound"}
    /\ LoopIdle
    /\ feed' = [feed EXCEPT
                   ![p] = IF p \in DOMAIN active_streams THEN "run" ELSE "notfound"]
    /\ UNCHANGED <<poolVars, mgrVars, drvVars, stageVars, yielded, listing, recVars, opVars>>

\* stream_manager_service.py:103  the multipart part wrapped around frame_bytes
MultipartPart(frame_bytes) == <<"--frame", "image/jpeg", frame_bytes>>

\* stream_manager_service.py:99  if not thread.is_alive() and frame_queue.empty()
FeedBreaks(p) == ~DriverAlive(p) /\ output_queue[p] = <<>>

\* stream_manager_service.py:99-103  frame_queue.get(timeout=0.02) returns an
\* item: None ends the generator, a frame is yielded
FeedGet(p) ==
    /\ feed[p] = "run"
    /\ LoopIdle
    /\ output_queue[p] # <<>>
    /\ output_queue' = [output_queue EXCEPT ![p] = Tail(@)]
    /\ IF Head(output_queue[p]) = NoneV
       THEN /\ feed' = [feed EXCEPT ![p] = "ended"]
            /\ yielded' = yielded
       ELSE /\ feed' = feed
            /\ yielded' = [yielded EXCEPT
                              ![p] = Append(@, MultipartPart(Head(output_queue[p])))]
    /\ UNCHANGED <<poolVars, mgrVars, drvVars, st, hold, preprocess_queue,
                   inference_queue, postprocess_queue, nread, sentinels, listing, recVars, opVars>>

\* stream_manager_service.py:99  the driver thread is dead and the queue is
\* empty: break.  (A get that times out sleeps 0.01 s and comes back to this
\* test: no change of state.)
FeedEnd(p) ==
    /\ feed[p] = "run"
    /\ LoopIdle
    /\ FeedBreaks(p)
    /\ feed' = [feed EXCEPT ![p] = "ended"]
    /\ UNCHANGED <<poolVars, mgrVars, drvVars, stageVars, yielded, listing, recVars, opVars>>

\* a cancellation that tears the session down: the entry is popped
FeedCancelStops(p) ==
    /\ feed[p] = "run"
    /\ LoopIdle
    /\ feed' = [feed EXCEPT ![p] = "cancelled"]
    /\ active_streams' = Popped(active_streams, p)
    /\ UNCHANGED <<poolVars, nextId, start, observed, refused, calls, loopBusy, shut,
                   now, lifetime, drvVars, stageVars, yielded, listing, recVars, opVars>>

\* stream_manager_service.py:101,105  the consumer goes away: CancelledError
\* is raised at the await and passed.  A frame_queue.get already running in
\* its worker thread is not interrupted: it may still take one item, which
\* nobody receives.
FeedCancel(p) ==
    /\ feed[p] = "run"
    /\ LoopIdle
    /\ feed' = [feed EXCEPT ![p] = "cancelled"]
    /\ \/ output_queue' = output_queue
       \/ /\ output_queue[p] # <<>>
          /\ output_queue' = [output_queue EXCEPT ![p] = Tail(@)]
    /\ UNCHANGED <<poolVars, mgrVars, drvVars, st, hold, preprocess_queue,
                   inference_queue, postprocess_queue, nread, sentinels,
                   yielded, listing, recVars, opVars>>

\* ------------------------------------------- get_all_active_streams_info

\* the driver thread is at the last statement of stop(): it may end between
\* the two tests of is_alive() (stream_manager_service.py:110 and :112)
DriverEnding(p) == drv[p] = "stop" /\ sp[p]["drv"] = "clear"

\* a collection of dead ids that finds none
dead_stream_ids_none(reg) == {}

\* stream_manager_service.py:110  the ids whose thread is not alive
dead_stream_ids(reg) == {sid \in DOMAIN reg : ~DriverAlive(sid)}

\* stream_manager_service.py:106-114  under the lock: the ids whose driver
\* thread is dead are collected (:110), the infos of the live ones are
\* returned (:111-112), the dead ones are popped (:113)
ListStreams ==
    /\ LoopIdle
    /\ \E late \in SUBSET {sid \in DOMAIN active_streams : DriverEnding(sid)} :
          listing' = {sid \in DOMAIN active_streams : DriverAlive(sid)} \ late
    /\ active_streams' =
          [sid \in DOMAIN active_streams \ dead_stream_ids(active_streams)
              |-> active_streams[sid]]
    /\ UNCHANGED <<poolVars, nextId, start, observed, refused, calls, loopBusy, shut,
                   now, lifetime, drvVars, stageVars, feed, yielded, recVars, opVars>>

\* ------------------------------------------------------ lifespan shutdown

\* no request is being served
Quiescent ==
    /\ \A p \in Streams : start[p] # "grace"
    /\ calls = <<>>

RECURSIVE SeqOfSet(_)
SeqOfSet(S) ==
    IF S = {} THEN <<>>
    ELSE LET m == CHOOSE x \in S : \A y \in S : x <= y
         IN <<m>> \o SeqOfSet(S \ {m})

\* main.py:59-71, stream_manager_service.py:123-126  stop_all_streams:
\* gather(stop_stream(sid)) over the ids registered now
ShutdownBegin ==
    /\ shut = "run"
    /\ LoopIdle
    /\ Quiescent
    /\ shut' = "stopall"
    /\ LET ids == SeqOfSet(DOMAIN active_streams)
       IN calls' = [i \in 1..Len(ids) |-> NewCall(ids[i], "init", "all")]
    /\ UNCHANGED <<feedVars, poolVars, nextId, start, active_streams, observed, refused, loopBusy,
                   now, lifetime, drvVars, stageVars>>

\* model_manager.py:95-105  while not self._pool.empty(): get_nowait(); an
\* item that cannot be unpacked or deleted is logged and the loop goes on
RECURSIVE EmptyPool(_)
EmptyPool(pl) == IF pl = <<>> THEN pl ELSE EmptyPool(Tail(pl))

\* a dispose() that waits until every set has been returned
DisposeWaits(raises) ==
    /\ \A p \in Streams : models[p] = NoneV
    /\ killed' = (killed \/ ~raises)
    /\ pool' = EmptyPool(pool)

\* model_manager.py:76-108  dispose(): the worker processes are killed, and an
\* exception of that step is logged and swallowed (:86-90, raises); then the
\* pool queue is emptied without blocking (:95-105)
Dispose(raises) ==
    /\ killed' = (killed \/ ~raises)
    /\ pool' = EmptyPool(pool)

\* main.py:74-78  gather returned; lifespan calls model_pool.dispose()
ShutdownDispose ==
    /\ shut = "stopall"
    /\ LoopIdle
    /\ calls = <<>>
    /\ shut' = "finished"
    /\ \E raises \in BOOLEAN : Dispose(raises)
    /\ UNCHANGED <<feedVars, nextId, start, active_streams, observed, refused, calls, loopBusy, now,
                   lifetime, drvVars, stageVars>>

\* model_manager.py:76-108  dispose() is called on the disposed pool
DisposeAgain ==
    /\ shut = "finished"
    /\ LoopIdle
    /\ shut' = "again"
    /\ \E raises \in BOOLEAN : Dispose(raises)
    /\ UNCHANGED <<feedVars, nextId, start, active_streams, observed, refused, calls, loopBusy, now,
                   lifetime, drvVars, stageVars>>

\* ------------------------------------------------ cleanup_expired_streams

\* lifetime_minutes of a request: -1 (never expires), 0, or one minute
Lifetimes == {-1, 0, 1}

\* an expiry test that takes None for an instant that has passed
ExpiredOrNone(reg, t) == {sid \in DOMAIN reg : t >= reg[sid].expires_at}

\* an expiry test that lets the instant of expiry itself pass
ExpiredStrictly(reg, t) ==
    {sid \in DOMAIN reg : reg[sid].expires_at # NoneV /\ t > reg[sid].expires_at}

\* stream_manager_service.py:121  info.expires_at and now >= info.expires_at
Expired(reg, t) ==
    {sid \in DOMAIN reg : reg[sid].expires_at # NoneV /\ t >= reg[sid].expires_at}

\* stream_manager_service.py:122  the sweeper is awaiting its gather
SweepInFlight == \E k \in DOMAIN calls : calls[k].origin = "sweep"

\* datetime.now() moves on by a minute
Tick ==
    /\ now < MaxNow
    /\ now' = now + 1
    /\ UNCHANGED <<feedVars, poolVars, nextId, start, active_streams, observed, refused,
                   calls, loopBusy, shut, lifetime, drvVars, stageVars>>

\* stream_manager_service.py:117-122  the sleep of the sweeper is over: now
\* is read, the expired ids are collected under the lock, and
\* gather(stop_stream(sid)) is awaited over them
SweepTick ==
    /\ shut = "run"
    /\ LoopIdle
    /\ ~SweepInFlight
    /\ LET ids == SeqOfSet(Expired(active_streams, now))
       IN calls' = calls \o [i \in 1..Len(ids) |-> NewCall(ids[i], "init", "sweep")]
    /\ UNCHANGED <<feedVars, poolVars, nextId, start, active_streams, observed, refused,
                   loopBusy, shut, now, lifetime, drvVars, stageVars>>

\* ---------------------------------------------------------- specifications

DriverStep(p) ==
    \/ DriverAcquire(p)
    \/ DriverOpen(p)
    \/ DriverPollExit(p)

StopStep(p, r) ==
    \/ StopSet(p, r)
    \/ StopCleanup(p, r)
    \/ StopRelease(p, r)
    \/ StopClear(p, r)

StageStep(p) ==
    \/ ReaderCheck(p)
    \/ ReaderReadFail(p)
    \/ ReaderSentinel(p)
    \/ StageCheck(p, "Preprocessor")
    \/ PreGet(p)
    \/ PrePut(p)
    \/ StageCheck(p, "Inference")
    \/ InfGet(p)
    \/ InfPut(p)
    \/ PostCheck(p)
    \/ PostGet(p)
    \/ PostFinal(p)

\* continuations of coroutines suspended on the event loop
LoopStep ==
    \/ \E p \in Streams : StartStreamCheck(p)
    \/ \E k \in DOMAIN calls : StopStreamReturn(k)

StageRun(p) ==
    \/ ReaderRun(p)
    \/ PreRun(p)
    \/ InfRun(p)
    \/ PostRun(p)

Drivers ==
    \/ \E p \in Streams : DriverStep(p)
    \/ \E p \in Streams, r \in Runners : StopStep(p, r)

\* sessions on sources that deliver no frame, started and stopped by requests
Next ==
    \/ StartStream("file", DefaultLifetime)
    \/ \E sid \in Streams : StopStream(sid)
    \/ LoopStep
    \/ Drivers
    \/ \E p \in Streams : StageRun(p)

Spec == Init /\ [][Next]_vars

\* the same sessions, ended by the shutdown of the application
NextShutdown ==
    \/ StartStream("file", DefaultLifetime)
    \/ LoopStep
    \/ ShutdownBegin
    \/ \E k \in DOMAIN calls : StopStreamBegin(k)
    \/ ShutdownDispose
    \/ Drivers
    \/ \E p \in Streams : StageRun(p)

SpecShutdown == Init /\ [][NextShutdown]_vars

\* the same shutdown, and a second call of dispose() after it
NextDispose ==
    \/ NextShutdown
    \/ DisposeAgain

SpecDispose == Init /\ [][NextDispose]_vars

\* one session whose source delivers frames
NextPipe ==
    \/ \E src \in Sources : nextId = 1 /\ StartStream(src, DefaultLifetime)
    \/ \E sid \in Streams : StopStream(sid)
    \/ LoopStep
    \/ Drivers
    \/ \E p \in Streams : StageStep(p)
    \/ \E p \in Streams : ReaderReadFrame(p)
    \/ \E p \in Streams : InfError(p)

SpecPipe == Init /\ [][NextPipe]_vars

FeedStep(p) ==
    \/ FeedGet(p)
    \/ FeedEnd(p)

\* one session on a file that delivers frames, with a consumer of its feed
NextFeed ==
    \/ nextId = 1 /\ StartStream("file", DefaultLifetime)
    \/ \E sid \in Streams : start[sid] # "none" /\ StopStream(sid)
    \/ LoopStep
    \/ Drivers
    \/ \E p \in Streams : StageStep(p)
    \/ \E p \in Streams : ReaderReadFrame(p)
    \/ \E p \in Streams : InfError(p)
    \/ \E p \in Streams : PostError(p)
    \/ \E p \in Streams : start[p] # "none" /\ FeedOpen(p)
    \/ \E p \in Streams : FeedStep(p)
    \/ \E p \in Streams : FeedCancel(p)

SpecFeed == Init /\ [][NextFeed]_vars

\* one session on a file that delivers no frame, with a consumer of its feed
\* and requests that list the sessions
NextLive ==
    \/ nextId = 1 /\ StartStream("file", DefaultLifetime)
    \/ \E sid \in Streams : start[sid] # "none" /\ StopStream(sid)
    \/ LoopStep
    \/ Drivers
    \/ \E p \in Streams : StageRun(p)
    \/ \E p \in Streams : start[p] # "none" /\ FeedOpen(p)
    \/ \E p \in Streams : FeedStep(p)
    \/ \E p \in Streams : FeedCancel(p)
    \/ ListStreams

\* every thread that can take a step is scheduled, and the event loop resumes
\* a coroutine that is ready; requests (start, stop, feed, cancel, list) are
\* made or not
Fairness ==
    /\ \A p \in Streams : WF_vars(DriverStep(p))
    /\ \A p \in Streams, r \in Runners : WF_vars(StopStep(p, r))
    /\ \A p \in Streams : WF_vars(StageRun(p))
    /\ \A p \in Streams : WF_vars(FeedStep(p))
    /\ WF_vars(LoopStep)

SpecLive == Init /\ [][NextLive]_vars /\ Fairness

\* sessions on a file, which end by themselves, and on a camera, which run
\* until they are stopped; they are listed while they run and end
NextList ==
    \/ \E src \in {"file", "cam"} : StartStream(src, DefaultLifetime)
    \/ \E p \in Streams : StartStreamCheck(p)
    \/ Drivers
    \/ \E p \in Streams : StageRun(p)
    \/ ListStreams

SpecList == Init /\ [][NextList]_vars

\* a session on a file and, when its thread has ended, a session on a camera,
\* each started with a lifetime; they are listed, and stopped by the expiry
\* sweeper only
NextSweep ==
    \/ nextId = 1 /\ \E life \in Lifetimes : StartStream("file", life)
    \/ nextId = 2 /\ start[1] = "ok" /\ ~DriverAlive(1)
                  /\ \E life \in Lifetimes : StartStream("cam", life)
    \/ LoopStep
    \/ \E k \in DOMAIN calls : StopStreamBegin(k)
    \/ Drivers
    \/ \E p \in Streams : StageRun(p)
    \/ Tick
    \/ SweepTick
    \/ ListStreams

SpecSweep == Init /\ [][NextSweep]_vars

\* one session on a file that shows faces in one frame; it runs to the end
\* of the file
NextRecognize ==
    \/ nextId = 1 /\ StartStream("file", DefaultLifetime)
    \/ StartStreamCheck(1)
    \/ DriverStep(1)
    \/ StopStep(1, "drv")
    \/ StageStep(1)
    \/ ReaderReadFrame(1)

SpecRecognize == InitRecognize /\ [][NextRecognize]_vars

\* ---- one session on a camera or a file, its stage threads step by step
\* ---- and scheduled fairly, stopped by stop_stream or by its own driver

\* pipeline.py:123-154  the steps of the capture thread; cap.read() returns
ReaderStep(p) ==
    \/ ReaderCheck(p)
    \/ ReaderReadFrame(p)
    \/ ReaderReadFail(p)
    \/ ReaderSentinel(p)

\* pipeline.py:156-167
PreStep(p) == StageCheck(p, "Preprocessor") \/ PreGet(p) \/ PrePut(p)

\* pipeline.py:169-184
InfStep(p) == StageCheck(p, "Inference") \/ InfGet(p) \/ InfPut(p)

\* pipeline.py:186-234
PostStep(p) == PostCheck(p) \/ PostGet(p) \/ PostFinal(p)

NextDrain ==
    \/ \E src \in {"file", "cam"} : nextId = 1 /\ StartStream(src, DefaultLifetime)
    \/ 1 \in DOMAIN active_streams /\ StopStream(1)
    \/ LoopStep
    \/ DriverStep(1)
    \/ \E r \in Runners : StopStep(1, r)
    \/ ReaderStep(1)
    \/ PreStep(1)
    \/ InfStep(1)
    \/ PostStep(1)

\* every thread that can take a step is scheduled; a put that waits on a
\* full queue is not a step the thread can take
FairnessDrain ==
    /\ WF_vars(DriverStep(1))
    /\ \A r \in Runners : WF_vars(StopStep(1, r))
    /\ WF_vars(ReaderStep(1))
    /\ WF_vars(PreStep(1))
    /\ WF_vars(InfStep(1))
    /\ WF_vars(PostStep(1))
    /\ WF_vars(LoopStep)

SpecDrain == Init /\ [][NextDrain]_vars /\ FairnessDrain

\* ------------------------------------------------- ModelPool.__init__

\* a constructor that logs a failed creation and returns what it has built
OnCreateErrorSkips(c) == "built"

\* model_manager.py:26-28,53-55  create_degirum_model raises RuntimeError;
\* __init__ logs it and raises it again
OnCreateError(c) == "raised"

\* model_manager.py:43-46  detection_model = create_degirum_model(...)
CreateDetection ==
    /\ shut = "loading"
    /\ ctor = "det"
    /\ \E ok \in BOOLEAN : ctor' = IF ok THEN "rec" ELSE OnCreateError(ctor)
    /\ UNCHANGED <<poolVars, mgrVars, drvVars, stageVars, feed, yielded, listing, recVars,
                   pool_size, faceop>>

\* model_manager.py:41,47-51  recognition_model = create_degirum_model(...);
\* self._pool.put((detection_model, recognition_model)); next i in
\* range(pool_size)
CreateRecognition ==
    /\ shut = "loading"
    /\ ctor = "rec"
    /\ \E ok \in BOOLEAN :
          IF ok
          THEN /\ pool' = Release(pool, Len(pool) + 1)
               /\ ctor' = IF Len(pool) + 1 = pool_size THEN "built" ELSE "det"
          ELSE /\ pool' = pool
               /\ ctor' = OnCreateError(ctor)
    /\ UNCHANGED <<killed, mgrVars, drvVars, stageVars, feed, yielded, listing, recVars,
                   pool_size, faceop>>

\* main.py:35-55  ModelPool(...) has returned: the pool is bound to
\* app.state, the services are created on it and requests are served
LifespanStart ==
    /\ shut = "loading"
    /\ ctor = "built"
    /\ shut' = "run"
    /\ UNCHANGED <<poolVars, nextId, start, active_streams, observed, refused, calls,
                   loopBusy, now, lifetime, drvVars, stageVars, feedVars>>

\* ------------------------------------------------ FaceOperationService

FaceOps == {"register", "recognize"}

\* the ways the body leaves the try block once it holds a set.
\* register_face (face_operation_service.py:43-59): the record is returned;
\* HTTPException 400 (no face, several faces); any other exception (decode,
\* predict, align_and_crop, the database).  recognize_face (:75-102): the
\* results are returned; return [] (no face, no aligned face); an exception
Exits(op) ==
    IF op = "register" THEN {"ok", "invalid", "error"} ELSE {"ok", "empty", "error"}

\* a release at the end of the try block, reached only by a normal return
ReleasesOnReturn(out, m) == m # NoneV /\ out \in {"ok", "empty"}

\* face_operation_service.py:60-63,103-106  finally: if models:
ReleasesOn(out, m) == m # NoneV

\* face_operation_service.py:34-39,66-71  models = self.model_pool.acquire();
\* None raises HTTPException 503
FaceAcquire(op) ==
    /\ shut = "run"
    /\ LoopIdle
    /\ LET r == Acquire(pool) IN
        /\ pool' = r.pool
        /\ faceop' = IF r.models = NoneV
                     THEN [pc |-> "finally", op |-> op, models |-> NoneV, got |-> 0,
                           put |-> 0, out |-> "busy"]
                     ELSE [pc |-> "work", op |-> op, models |-> r.models, got |-> 1,
                           put |-> 0, out |-> "none"]
    /\ UNCHANGED <<killed, mgrVars, drvVars, stageVars, feed, yielded, listing, recVars,
                   pool_size, ctor>>

\* face_operation_service.py:41-59,73-102  the body between acquire and finally
FaceWork ==
    /\ faceop.pc = "work"
    /\ \E out \in Exits(faceop.op) :
          faceop' = [faceop EXCEPT !.pc = "finally", !.out = out]
    /\ UNCHANGED <<poolVars, mgrVars, drvVars, stageVars, feed, yielded, listing, recVars,
                   pool_size, ctor>>

\* face_operation_service.py:60-63,103-106  finally: if models:
\* self.model_pool.release(models); the call ends
FaceFinally ==
    /\ faceop.pc = "finally"
    /\ IF ReleasesOn(faceop.out, faceop.models)
       THEN /\ CanRelease(pool)
            /\ pool' = Release(pool, faceop.models)
            /\ faceop' = [faceop EXCEPT !.pc = "idle", !.models = NoneV, !.put = @ + 1]
       ELSE /\ pool' = pool
            /\ faceop' = [faceop EXCEPT !.pc = "idle", !.models = NoneV]
    /\ UNCHANGED <<killed, mgrVars, drvVars, stageVars, feed, yielded, listing, recVars,
                   pool_size, ctor>>

\* ---- one session and the static operations
NextFace ==
    \/ nextId = 1 /\ StartStream("file", DefaultLifetime)
    \/ 1 \in DOMAIN active_streams /\ StopStream(1)
    \/ LoopStep
    \/ DriverStep(1)
    \/ \E r \in Runners : StopStep(1, r)
    \/ StageRun(1)
    \/ \E op \in FaceOps : FaceAcquire(op)
    \/ FaceWork
    \/ FaceFinally

SpecFace == Init /\ [][NextFace]_vars

\* ---- the same service from the construction of its pool on

\* main.py:35  ModelPool(settings, pool_size=max_concurrent_tasks) is entered:
\* the queue is empty and the first detection model is about to be created
InitConstruct ==
    /\ pool = <<>>
    /\ pool_size \in 1..MaxPoolSize
    /\ ctor = "det"
    /\ shut = "loading"
    /\ InitIdle
    /\ detected_faces_data = [p \in Streams |-> [f \in 1..MaxFrames |-> <<>>]]

NextConstruct ==
    \/ CreateDetection
    \/ CreateRecognition
    \/ LifespanStart
    \/ NextFace

SpecConstruct == InitConstruct /\ [][NextConstruct]_vars

\* ------------------------------------------------------------ properties

\* the pipelines whose models field refers to set s and whose stop() has
\* not yet put it back (a runner at "clear" has put it back and is about
\* to clear the field)
Holders(s) ==
    {p \in Streams : models[p] = s /\ \A r \in Runners : sp[p][r] # "clear"}

CheckedOut == {<<p, s>> \in Streams \X Sets : p \in Holders(s)}

Occurrences(pl, s) == Cardinality({i \in DOMAIN pl : pl[i] = s})

\* no runner is inside stop() for pipeline p and its driver thread has ended
StopFinished(p) ==
    /\ drv[p] = "dead"
    /\ \A r \in Runners : sp[p][r] = "idle"

\* C1: until the pool is disposed, the number of sets checked out plus the
\* number of sets waiting in the pool equals the capacity.
C1_Conservation ==
    ~killed => Cardinality(CheckedOut) + Len(pool) = Capacity

\* C2: no set is held by two sessions at once, and a set waits in the pool
\* only while no session holds it.
C2_ExclusiveOwnership ==
    \A s \in Sets : Cardinality(Holders(s)) + Occurrences(pool, s) <= 1

\* C3: when stop_stream found a session whose pipeline held a set and the
\* stop has run to its end (the join is about to return), the pipeline has
\* put back exactly one set.
C3_ReleasedOnce ==
    \A k \in DOMAIN calls :
        (calls[k].held /\ calls[k].pc = "join" /\ StopFinished(calls[k].sid))
            => released[calls[k].sid] = 1

\* C4: when the first Capacity sessions hold every set and have never put
\* one back, a further start_stream whose driver never obtained a set ends
\* with service-busy and registers nothing.
C4_BusyWhenExhausted ==
    LET last == Capacity + 1
    IN  ( /\ \A q \in 1..Capacity :
                start[q] = "ok" /\ models[q] \in Sets /\ released[q] = 0
          /\ models[last] = NoneV
          /\ released[last] = 0
          /\ start[last] \notin {"none", "grace"} )
        => (start[last] = "busy" /\ last \notin DOMAIN active_streams)

\* C5: a start() that found no set or could not open its source has started
\* no stage thread, and once its driver has ended and no stop() is running
\* on the pipeline, the pipeline holds no set.
C5_FailedStartIsClean ==
    \A p \in Streams :
        (StopFinished(p) /\ cap[p] \in {"none", "failed"})
            => (~ThreadsStarted(p) /\ models[p] = NoneV)

\* C6: when the grace interval of a start_stream ends, a driver that has
\* terminated gives service-busy and leaves the registry as it was; a live
\* driver gives success and adds exactly one entry, under an id that was
\* never registered before.  Nothing else adds an entry.
C6_StartOutcome ==
    [][\A p \in Streams :
        /\ (start[p] = "grace" /\ start'[p] # "grace") =>
              IF drv[p] = "dead"
              THEN start'[p] = "busy" /\ active_streams' = active_streams
              ELSE /\ start'[p] = "ok"
                   /\ p \notin DOMAIN active_streams
                   /\ observed[p] = 0
                   /\ DOMAIN active_streams' = DOMAIN active_streams \cup {p}
                   /\ active_streams'[p].stream_id = p
                   /\ \A q \in DOMAIN active_streams :
                         active_streams'[q] = active_streams[q]
        /\ (p \in DOMAIN active_streams' /\ p \notin DOMAIN active_streams) =>
              (start[p] = "grace" /\ start'[p] = "ok")
      ]_vars

\* one start_stream has ended with service-busy and is not registered,
\* another has succeeded and is registered
C6_Witness ==
    \E p, q \in Streams :
        /\ start[p] = "busy" /\ p \notin DOMAIN active_streams
        /\ start[q] = "ok" /\ q \in DOMAIN active_streams

\* C7: an acquire that ends while no set waits in the pool returns None and
\* leaves the pool as it was; otherwise it returns a waiting set and exactly
\* that set leaves the pool.
C7_Acquire ==
    [][\A p \in Streams :
        (drv[p] = "acquire" /\ drv'[p] # "acquire") =>
            IF pool = <<>>
            THEN models'[p] = NoneV /\ pool' = pool
            ELSE /\ \E i \in DOMAIN pool : models'[p] = pool[i]
                 /\ Len(pool') = Len(pool) - 1
                 /\ \A s \in Sets \cup {NoneV} :
                       Occurrences(pool', s) =
                           Occurrences(pool, s) - (IF s = models'[p] THEN 1 ELSE 0)
      ]_vars

\* one driver took the last set and still holds it, another driver's
\* acquire found the pool empty and returned None
C7_Witness ==
    \E p, q \in Streams :
        /\ models[p] \in Sets /\ drv[p] = "open" /\ pool = <<>>
        /\ drv[q] = "dead" /\ cap[q] = "none" /\ models[q] = NoneV
        /\ released[q] = 0

\* C8: at most one stop_stream call finds the session of an id; the entry is
\* gone from the registry once it was found, the engine of the session has
\* its stop flag set as soon as that call is past the flag, and no other
\* call on the id is in flight.
C8_StopOnce ==
    \A sid \in Streams :
        /\ observed[sid] <= 1
        /\ observed[sid] = 1 =>
              /\ sid \notin DOMAIN active_streams
              /\ sp[sid]["loop"] # "set" => stop_event[sid]
        /\ Cardinality({k \in DOMAIN calls :
                           calls[k].sid = sid /\ calls[k].pc # "init"})
              <= observed[sid]

\* a stop_stream call that found the session is still awaiting the driver
\* while another call on the same id has returned False
C8_Witness ==
    \E k \in DOMAIN calls :
        /\ calls[k].pc = "join"
        /\ observed[calls[k].sid] = 1
        /\ refused[calls[k].sid] >= 1

\* C9: after shutdown (stop_all_streams, then dispose) the registry is empty,
\* no driver or stage thread is alive and no pipeline holds a set.
C9_ShutdownIsComplete ==
    shut = "finished" =>
        /\ active_streams = <<>>
        /\ \A p \in Streams :
              /\ ~DriverAlive(p)
              /\ \A t \in Stages : ~StageAlive(p, t)
              /\ models[p] = NoneV

\* every stage thread of pipeline p has ended
StagesDone(p) == \A t \in Stages : st[p][t] = "done"

EndedByEOF(p) ==
    /\ IsFile(p)
    /\ observed[p] = 0
    /\ st[p]["Reader"] \in {"sent", "done"}

\* C11 (on finite runs): for a finite source, after the capture stage has read
\* EOF the sentinel reaches the output queue.  The recognize stage is the only
\* thread that puts into the output queue and the sentinel is its last put, so
\* "eventually reaches" means: once that stage has ended, the sentinel has
\* been enqueued there.
C11_SentinelReachesOutput ==
    \A p \in Streams :
        EndedByEOF(p) /\ st[p]["Postprocessor"] = "done"
            => sentinels[p]["output"] = 1

\* the feed yields only what it takes from the head of the output queue
C12_YieldsFromQueue ==
    [][\A p \in Streams :
          yielded'[p] # yielded[p]
              => /\ feed[p] = "run"
                 /\ output_queue[p] # <<>>
                 /\ Head(output_queue[p]) # NoneV
                 /\ yielded'[p] = Append(yielded[p], MultipartPart(Head(output_queue[p])))
                 /\ output_queue'[p] = Tail(output_queue[p])]_vars

\* the feed ends by itself exactly on the sentinel or on a dead driver with
\* an empty queue
C12_EndsWhen ==
    [][\A p \in Streams :
          feed[p] = "run" /\ feed'[p] = "ended"
              => \/ /\ output_queue[p] # <<>>
                    /\ Head(output_queue[p]) = NoneV
                 \/ ~DriverAlive(p) /\ output_queue[p] = <<>>]_vars

\* once the driver thread has terminated the feed eventually ends
C12_EventuallyEnds ==
    \A p \in Streams : (feed[p] = "run" /\ drv[p] = "dead") ~> (feed[p] # "run")

\* C12: get_stream_feed yields only frames taken from the output queue, in
\* queue order; it ends exactly when it dequeues the sentinel or when the
\* driver thread is dead and the queue is empty; and it eventually ends once
\* the driver thread has terminated.
C12_Feed == C12_YieldsFromQueue /\ C12_EndsWhen /\ C12_EventuallyEnds

\* C13: cancelling or abandoning a feed consumer changes nothing in the
\* engine: the stop flag, the registry, the ResourceSet and the pool, the
\* driver, the stage threads and the calls of stop() are left as they are.
C13_CancelLeavesEngine ==
    [][\A p \in Streams :
          feed[p] = "run" /\ feed'[p] = "cancelled"
              => UNCHANGED <<stop_event, active_streams, models, pool, killed,
                             drv, st, sp, cap, calls, released>>]_vars

\* the consumer of a running session has gone away and the session is still
\* registered, holds its set and goes on publishing frames
C13_Witness ==
    \E p \in Streams :
        /\ feed[p] = "cancelled"
        /\ p \in DOMAIN active_streams
        /\ ~stop_event[p]
        /\ HasModels(p)
        /\ \A t \in Stages : StageAlive(p, t)
        /\ Len(output_queue[p]) = QueueMax

\* ---- the stages and their queues (SpecPipe, SpecFeed)

\* C14: the capture thread never blocks on enqueuing a frame into the first
\* intermediate queue: a frame that the source delivers is taken whatever the
\* queue holds; when the queue is full the frame is discarded and the queue
\* is left unchanged, otherwise the frame is appended; and the capture loop
\* goes on to its next test of the stop flag.
C14_DropNewest ==
    /\ [](\A p \in Streams :
            st[p]["Reader"] = "read" /\ cap[p] = "open" /\ nread[p] < MaxFrames
                => ENABLED ReaderReadFrame(p))
    /\ [][\A p \in Streams :
            nread'[p] # nread[p]
                => /\ st[p]["Reader"] = "read"
                   /\ st'[p]["Reader"] = "loop"
                   /\ nread'[p] = nread[p] + 1
                   /\ preprocess_queue'[p] =
                         IF Len(preprocess_queue[p]) >= QueueMax
                         THEN preprocess_queue[p]
                         ELSE Append(preprocess_queue[p], nread'[p])]_vars

\* the third frame was read while the first two filled the queue: it is
\* gone, the queue is as it was, and the capture loop is at its test again
C14_Witness ==
    \E p \in Streams :
        /\ nread[p] = QueueMax + 1
        /\ preprocess_queue[p] = [i \in 1..QueueMax |-> i]
        /\ st[p]["Reader"] = "loop"
        /\ ~stop_event[p]

\* C15: in every reachable state each of the three intermediate queues and
\* the output queue of a session holds at most its bound, whatever the
\* relative speeds of the stages and of the feed consumer.
C15_QueuesBounded ==
    \A p \in Streams :
        /\ Len(preprocess_queue[p]) <= QueueMax
        /\ Len(inference_queue[p]) <= QueueMax
        /\ Len(postprocess_queue[p]) <= QueueMax
        /\ Len(output_queue[p]) <= QueueMax

\* a consumer is attached and slow: the output queue is at its bound and
\* every frame of the file has gone through the stages
C15_Witness ==
    \E p \in Streams :
        /\ feed[p] = "run"
        /\ yielded[p] = <<>>
        /\ Len(output_queue[p]) = QueueMax
        /\ nread[p] = MaxFrames
        /\ preprocess_queue[p] = <<>>
        /\ inference_queue[p] = <<>>
        /\ postprocess_queue[p] = <<>>
        /\ \A t \in Stages : hold[p][t] = NoneV
        /\ ~stop_event[p]

IsFrame(x) == x # NoneV

\* pipeline.py:219-226, stream_manager_service.py:101-103  the frames
\* published to the output queue of p, in the order of their publication:
\* those the consumer has yielded, then those still in the queue (an item
\* taken by a get whose consumer was cancelled is in neither)
Published(p) ==
    [i \in 1..Len(yielded[p]) |-> yielded[p][i][3]]
        \o SelectSeq(output_queue[p], IsFrame)

\* C16: within one session the frames published to the output queue are a
\* subsequence of the frames read by the capture stage (numbered 1..nread in
\* the order of capture): each one was captured, none is published twice and
\* no two are published out of their capture order.
C16_PublishedInCaptureOrder ==
    \A p \in Streams :
        LET pub == Published(p) IN
        /\ \A i \in DOMAIN pub : pub[i] \in 1..nread[p]
        /\ \A i, j \in DOMAIN pub : i < j => pub[i] < pub[j]

\* frames 1 and 3 were published, frame 2 was lost on the way; the consumer
\* has yielded the first and the other waits in the queue
C16_Witness ==
    \E p \in Streams :
        /\ yielded[p] = <<MultipartPart(1)>>
        /\ output_queue[p] = <<3>>
        /\ feed[p] = "run"

\* the detect stage gives up the frame it holds without forwarding it
InfDiscards(p) ==
    /\ st[p]["Inference"] = "hold"
    /\ hold[p]["Inference"] # NoneV
    /\ hold'[p]["Inference"] = NoneV
    /\ postprocess_queue'[p] = postprocess_queue[p]

\* the recognize+render stage takes a frame and publishes nothing
PostDiscards(p) ==
    /\ st[p]["Postprocessor"] = "get"
    /\ postprocess_queue[p] # <<>>
    /\ Head(postprocess_queue[p]) # NoneV
    /\ postprocess_queue'[p] = Tail(postprocess_queue[p])
    /\ output_queue'[p] = output_queue[p]

\* C17: an error raised while one frame is processed in the detect stage or
\* in the recognize+render stage never ends that stage thread and never stops
\* the session: the frame is discarded, the stage is back at its loop test
\* for the next item, and the stop flag, the driver and the registry are
\* left as they are.
C17_ErrorIsAbsorbed ==
    [][\A p \in Streams :
          /\ InfDiscards(p)
                => /\ st'[p]["Inference"] = "loop"
                   /\ UNCHANGED <<stop_event, drv, active_streams, models>>
          /\ PostDiscards(p)
                => /\ st'[p]["Postprocessor"] = "loop"
                   /\ UNCHANGED <<stop_event, drv, active_streams, models>>]_vars

\* frame 1 was lost to an error (nothing was published before it and no
\* consumer took anything), and the same stage threads have gone on to
\* publish frame 2; the session is not being stopped
C17_Witness ==
    \E p \in Streams :
        /\ feed[p] = "none"
        /\ output_queue[p] = <<2>>
        /\ ~stop_event[p]
        /\ drv[p] = "poll"
        /\ \A t \in Stages : StageAlive(p, t)

\* ---- stop() and what it leaves behind

\* the call of stop() that set the stop flag of p has returned
StopCompleted(p) == stop_event[p] /\ \A r \in Runners : sp[p][r] = "idle"

IntermediateEmpty(p) ==
    /\ preprocess_queue[p] = <<>>
    /\ inference_queue[p] = <<>>
    /\ postprocess_queue[p] = <<>>

\* C18: when stop() completes, the source handle has been released
\* and the three intermediate queues and the output queue are empty.
C18_StopLeavesNothing ==
    \A p \in Streams :
        StopCompleted(p)
            => /\ cap[p] # "open"
               /\ IntermediateEmpty(p)
               /\ output_queue[p] = <<>>

\* a stage thread of p has ended while stop has not been requested, and the
\* driver is in its liveness poll
StageEndedUnasked(p) ==
    /\ drv[p] = "poll"
    /\ ~stop_event[p]
    /\ \E t \in Stages : st[p][t] = "done"

\* C19: if a stage thread terminates while stop has not been requested, the
\* driver detects it at its next poll, runs stop(), which puts the
\* ResourceSet back, and terminates; a listing made once the driver is dead
\* omits the session and removes it from the registry.
C19_DeadStageEndsSession ==
    /\ \A p \in Streams :
          StageEndedUnasked(p) ~> (drv[p] = "dead" /\ released[p] >= 1)
    /\ [][\A p \in Streams :
            drv[p] = "dead" /\ listing' # listing
                => p \notin listing' /\ p \notin DOMAIN active_streams']_vars

\* ---- the capture stage on a live source (SpecPipe)

\* face_schema.py:92  a source is a camera id, or a video file or a URL: a
\* camera and a network stream deliver frames for as long as they are read
IsLive(p) == source[p] \in {"cam", "rtsp"}

\* C20: for a continuously-live source a failed read never ends the capture
\* stage: after it the stage is back at its loop test (it sleeps and
\* retries), and it leaves the loop (and goes on to enqueue the sentinel)
\* only after the stop flag is set.
C20_LiveSourceRetries ==
    /\ [](\A p \in Streams :
            IsLive(p) /\ st[p]["Reader"] \in {"sent", "done"} => stop_event[p])
    /\ [][\A p \in Streams :
            /\ IsLive(p)
            /\ st[p]["Reader"] = "read"
            /\ st'[p]["Reader"] # "read"
            /\ nread'[p] = nread[p]
            => st'[p]["Reader"] = "loop"]_vars
\* a step of get_all_active_streams_info that returned another list than the
\* one before it, or that removed an entry
ListStep ==
    \/ listing' # listing
    \/ /\ DOMAIN active_streams' # DOMAIN active_streams
       /\ DOMAIN active_streams' \subseteq DOMAIN active_streams
       /\ calls' = calls

SweepStep == ~SweepInFlight /\ SweepInFlight'

\* the sessions that stop_stream calls of the sweeper are yet to begin on
SweepPending(cs) ==
    {cs[k].sid : k \in {j \in DOMAIN cs : cs[j].origin = "sweep" /\ cs[j].pc = "init"}}

\* C22: a sweeper tick selects exactly the registered sessions whose
\* expires_at is not None and not later than the tick time (a session of
\* lifetime 0 at the very minute it was started) and calls stop_stream on each;
\* such a call removes the session from the registry, so that no later list
\* returns it, and requests the stop of its pipeline when the driver thread is
\* alive; a session that has not expired is neither removed nor stopped.
C22_SweepStopsExpired ==
    [][/\ SweepStep =>
            /\ SweepPending(calls') =
                   {sid \in DOMAIN active_streams :
                       /\ active_streams[sid].expires_at # NoneV
                       /\ active_streams[sid].expires_at <= now}
            /\ active_streams' = active_streams
       /\ \A sid \in SweepPending(calls) \ SweepPending(calls') :
            /\ sid \notin DOMAIN active_streams'
            /\ (sid \in DOMAIN active_streams /\ DriverAlive(sid))
                  => (stop_event[sid] \/ sp'[sid]["loop"] = "set")
       /\ \A sid \in DOMAIN active_streams \ DOMAIN active_streams' :
            \/ ~DriverAlive(sid)
            \/ /\ active_streams[sid].expires_at # NoneV
               /\ active_streams[sid].expires_at <= now
       /\ \A sid \in Streams :
            (sp[sid]["loop"] = "idle" /\ sp'[sid]["loop"] # "idle")
               => sid \notin DOMAIN active_streams'
       /\ listing' # listing => listing' \subseteq DOMAIN active_streams]_vars

\* a tick found a session of lifetime 0, started in this minute, and a
\* running session that has a minute left: stop_stream is about to be called on
\* the first one only
C22_Witness ==
    \E p, q \in Streams :
        /\ SweepPending(calls) = {p}
        /\ lifetime[p] = 0 /\ p \in DOMAIN active_streams
        /\ active_streams[p].expires_at = now
        /\ lifetime[q] = 1 /\ q \in DOMAIN active_streams /\ DriverAlive(q)
        /\ active_streams[q].expires_at > now

\* C23: a session started with lifetime -1 is registered with expires_at =
\* None; a list taken while its driver thread runs returns it; no tick of the
\* sweeper selects it, whatever the time, and so it is not stopped from the
\* event loop and leaves the registry only when its thread has ended.
C23_PermanentSession ==
    /\ [](\A sid \in DOMAIN active_streams :
             lifetime[sid] = -1 <=> active_streams[sid].expires_at = NoneV)
    /\ [](\A k \in DOMAIN calls :
             calls[k].origin = "sweep" => lifetime[calls[k].sid] # -1)
    /\ [](\A sid \in Streams : lifetime[sid] = -1 => sp[sid]["loop"] = "idle")
    /\ [][\A sid \in DOMAIN active_streams :
             lifetime[sid] = -1 =>
                /\ sid \notin DOMAIN active_streams' => ~DriverAlive(sid)
                /\ (listing' # listing /\ DriverAlive(sid) /\ ~DriverEnding(sid))
                      => sid \in listing']_vars

\* a session of lifetime -1 is running, registered and listed at the last
\* minute, when a tick selects the session beside it, which has expired
C23_Witness ==
    \E p, q \in Streams :
        /\ lifetime[q] = -1 /\ q \in DOMAIN active_streams /\ DriverAlive(q)
        /\ q \in listing
        /\ now = MaxNow
        /\ SweepPending(calls) = {p}

\* a call of dispose() returned
DisposeStep == shut' # shut /\ shut' \in {"finished", "again"}

\* C24: dispose() completes whenever it is called, whether or not sessions
\* still hold sets and whether or not the reclamation of the worker processes
\* raises; when it returns the pool holds no available set and no session was
\* waited for or changed; a second call completes too, and changes nothing
\* when nothing was put back since the first.
C24_DisposeCompletes ==
    /\ []((shut = "stopall" /\ LoopIdle /\ calls = <<>>) => ENABLED ShutdownDispose)
    /\ []((shut = "finished" /\ LoopIdle) => ENABLED DisposeAgain)
    /\ [][DisposeStep =>
            /\ pool' = <<>>
            /\ UNCHANGED <<drvVars, stageVars, active_streams>>
            /\ (shut' = "again" /\ pool = <<>>) => (pool' = pool /\ (killed => killed'))]_vars

\* dispose() was called twice while a pipeline was holding the set that an
\* earlier session had put back, and the reclamation raised in both calls
C24_Witness ==
    /\ shut = "again"
    /\ ~killed
    /\ pool = <<>>
    /\ \E p \in Streams : models[p] # NoneV /\ DriverAlive(p)
    /\ \E p \in Streams : released[p] > 0

\* C25: the event loop never itself executes a thread join or a blocking pool
\* operation: it is never the runner of pipeline.stop() at the joins of the
\* stage threads or at the put that returns the set to the pool.
C25_LoopNeverBlocks ==
    \A p \in Streams : sp[p]["loop"] \notin {"join", "put"}

\* the recognize stage of pipeline p has dequeued a frame and is done with it
PostTookFrame(p) ==
    /\ st[p]["Postprocessor"] = "get"
    /\ st'[p]["Postprocessor"] # "get"
    /\ postprocess_queue[p] # <<>>
    /\ Head(postprocess_queue[p]) # NoneV

\* the boxes of the detections a sequence of images or results belongs to
BoxesOf(items, field) == {items[j][field] : j \in DOMAIN items}

\* C27: when the recognize stage handles a frame, no detection whose landmark
\* count is not 5 is in the batch or among the results, every detection of the
\* frame with 5 landmarks that support the alignment is in both, the frame is
\* offered to the output queue, and the stage goes on with its loop.
C27_WrongLandmarkCountSkipped ==
    [][\A p \in Streams :
         PostTookFrame(p) =>
            LET f == Head(postprocess_queue[p])
                faces == detected_faces_data[p][f]
                five == {faces[i].bbox : i \in {j \in DOMAIN faces : faces[j].landmarks = 5}}
                good == {faces[i].bbox : i \in {j \in DOMAIN faces :
                                                  faces[j].landmarks = 5 /\ faces[j].inliers}}
            IN  /\ BoxesOf(final_results'[p], "box") \subseteq five
                /\ good \subseteq BoxesOf(final_results'[p], "box")
                /\ five # {} =>
                      /\ BoxesOf(aligned_faces'[p], "of") \subseteq five
                      /\ good \subseteq BoxesOf(aligned_faces'[p], "of")
                /\ output_queue'[p] =
                      IF Len(output_queue[p]) < QueueMax
                      THEN Append(output_queue[p], f) ELSE output_queue[p]
                /\ st'[p]["Postprocessor"] = "loop"]_vars

\* the first frame showed a face without landmarks and a face with five: the
\* second one alone was recognized, and the frame is in the output queue
C27_Witness ==
    \E p \in Streams :
        /\ Len(detected_faces_data[p][1]) = 2
        /\ detected_faces_data[p][1][1].landmarks = 0
        /\ detected_faces_data[p][1][2].landmarks = 5
        /\ detected_faces_data[p][1][2].inliers
        /\ BoxesOf(aligned_faces[p], "of") = {2}
        /\ final_results[p] = <<[box |-> 2]>>
        /\ output_queue[p] = <<1>>
        /\ st[p]["Postprocessor"] = "loop"

\* C28: a detection whose alignment is degenerate (align_and_crop returns the
\* all-zero image) is not in the batch given to predict_batch.
C28_DegenerateSkipped ==
    \A p \in Streams : \A j \in DOMAIN aligned_faces[p] : ~aligned_faces[p][j].zero

\* C29: the recognize stage never blocks on the output queue: a dequeued
\* frame is handled whatever the output queue holds; when the output queue is
\* full the frame is dropped, the queue is left as it was, and the stage goes
\* on with its loop.
C29_OutputNeverBlocks ==
    /\ [](\A p \in Streams : st[p]["Postprocessor"] = "get" => ENABLED PostGet(p))
    /\ [][\A p \in Streams :
            (PostTookFrame(p) /\ Len(output_queue[p]) >= QueueMax)
                => /\ output_queue'[p] = output_queue[p]
                   /\ st'[p]["Postprocessor"] = "loop"
                   /\ postprocess_queue'[p] = Tail(postprocess_queue[p])]_vars

\* the faces of the last frame were recognized while the frames before it
\* filled the output queue: the frame is gone and the stage is at its loop
C29_Witness ==
    \E p \in Streams :
        /\ output_queue[p] = [i \in 1..QueueMax |-> i]
        /\ MaxFrames > QueueMax
        /\ detected_faces_data[p][MaxFrames] # <<>>
        /\ final_results[p] # <<>>
        /\ st[p]["Postprocessor"] = "loop"
        /\ ~stop_event[p]

\* stop_stream returned False for the id, or get_stream_feed raised 404 for it
NotFoundStep(sid) ==
    \/ refused'[sid] > refused[sid]
    \/ feed'[sid] = "notfound" /\ feed[sid] # "notfound"

\* C30: stop_stream and get_stream_feed on an id that is not registered
\* report not-found (stop_stream returns False and stops nothing, the feed
\* raises HTTPException(404) at its first step and yields nothing; a feed
\* starts to run only on a registered id), and they leave the registry, the
\* pool and every pipeline, its threads and its queues as they were.
C30_NotFoundChangesNothing ==
    [][\A sid \in Streams :
         /\ NotFoundStep(sid) =>
               /\ sid \notin DOMAIN active_streams
               /\ UNCHANGED <<active_streams, poolVars, drvVars, stageVars, yielded,
                              loopBusy, observed>>
               /\ \A k \in DOMAIN calls' : calls'[k] \in {calls[j] : j \in DOMAIN calls}
         /\ (feed'[sid] = "run" /\ feed[sid] # "run") => sid \in DOMAIN active_streams
         /\ (observed'[sid] > observed[sid]) => sid \in DOMAIN active_streams]_vars

\* both requests were refused for an id that is not registered while the
\* pipeline created for it was running
C30_Witness ==
    \E sid \in Streams :
        /\ refused[sid] = 1
        /\ feed[sid] = "notfound"
        /\ sid \notin DOMAIN active_streams
        /\ DriverAlive(sid) /\ models[sid] # NoneV /\ ~stop_event[sid]

\* C32: once the driver thread of a pipeline has ended and no stop() is
\* running on the pipeline, the pipeline holds no set: its models field is
\* None and the set it had acquired has been put back.
C32_NoSetLeaked ==
    \A p \in Streams :
        StopFinished(p) => (models[p] = NoneV /\ (released[p] = 0 => cap[p] = "none"))

\* C33: stop() puts the set of a pipeline back at most once, the pool never
\* holds more sets than its capacity, and no runner of stop() waits at the
\* put of release on a full pool.
C33_ReleasedAtMostOnce ==
    /\ Len(pool) <= Capacity
    /\ \A p \in Streams :
          /\ released[p] <= 1
          /\ \A r \in Runners : sp[p][r] = "put" => CanRelease(pool)

\* C35: once the stop flag of a pipeline is set, start() neither opens the
\* frame source nor starts a stage thread.
C35_NoStartAfterStop ==
    [][\A p \in Streams :
          stop_event[p] =>
              /\ (cap[p] # "open" => cap'[p] # "open")
              /\ \A t \in Stages : st[p][t] = "none" => st'[p][t] = "none"
      ]_vars

\* C39: after dispose() has completed the pool stays empty, and no acquire
\* obtains a set.
C39_DisposedPoolStaysEmpty ==
    /\ [](shut \in {"finished", "again"} => pool = <<>>)
    /\ [][\A p \in Streams :
             (shut \in {"finished", "again"} /\ models[p] = NoneV)
                 => models'[p] = NoneV]_vars

\* the inference thread of pipeline p has dequeued a frame and has not yet
\* come back from det_model.predict and the put that follows it
InferenceBusy(p) ==
    st[p]["Inference"] = "hold" /\ hold[p]["Inference"] # NoneV

\* C34: once stop() has put the set of a pipeline back, no stage thread of
\* the pipeline is running or about to run a frame through the detector or
\* the recognizer, also when the thread outlasted its join.
C34_NoInferenceAfterRelease ==
    \A p \in Streams : released[p] >= 1 => ~InferenceBusy(p)

\* a is what is left of b after some gets from its head
IsSuffix(a, b) == \E k \in 0..Len(b) : a = SubSeq(b, k + 1, Len(b))

\* C38: the output queue of a session receives at most one sentinel, which
\* is the last item of the queue for as long as it is there; once it was
\* enqueued nothing more is enqueued; and only a step of the recognize+render
\* stage enqueues anything.
C38_OutputSentinelLast ==
    /\ [](\A p \in Streams :
             /\ sentinels[p]["output"] <= 1
             /\ \A i \in DOMAIN output_queue[p] :
                   output_queue[p][i] = NoneV => i = Len(output_queue[p]))
    /\ [][\A p \in Streams :
             /\ sentinels[p]["output"] = 1
                   => IsSuffix(output_queue'[p], output_queue[p])
             /\ ~IsSuffix(output_queue'[p], output_queue[p])
                   => /\ st[p]["Postprocessor"] \in {"get", "final"}
                      /\ st'[p]["Postprocessor"] # st[p]["Postprocessor"]
      ]_vars

\* a frame and, behind it, the sentinel wait in the output queue after the
\* recognize+render stage has ended
C38_Witness ==
    \E p \in Streams :
        /\ st[p]["Postprocessor"] = "done"
        /\ sentinels[p]["output"] = 1
        /\ Len(output_queue[p]) = 2
        /\ output_queue[p][1] # NoneV
        /\ output_queue[p][2] = NoneV

\* frames waiting in a queue
Frames(q) == SelectSeq(q, LAMBDA x : x # NoneV)

\* C37: when a finite source has ended and no stop_stream call has found the
\* session, the stop() of the driver throws no buffered frame away: when it
\* empties the three intermediate queues no frame waits in them.
C37_EOFFlushesFrames ==
    [][\A p \in Streams :
          (EndedByEOF(p) /\ sp[p]["drv"] = "join" /\ sp'[p]["drv"] # "join")
              => /\ Frames(preprocess_queue[p]) = <<>>
                 /\ Frames(inference_queue[p]) = <<>>
                 /\ Frames(postprocess_queue[p]) = <<>>
      ]_vars

\* C36: once the stop flag of a pipeline is set and its stage threads have
\* been started, all four stage threads terminate, also a thread whose put
\* waits on a full queue that no thread reads any more.
C36_StagesTerminate ==
    \A p \in Streams : (stop_event[p] /\ ThreadsStarted(p)) ~> StagesDone(p)

\* the stop flag is set, the buffer stage holds a frame for the full
\* detection queue, and the detect stage has ended
C36_Witness ==
    \E p \in Streams :
        /\ stop_event[p]
        /\ st[p]["Preprocessor"] = "hold"
        /\ QueueFull(inference_queue[p])
        /\ st[p]["Inference"] = "done"

\* C31: the construction of the pool is all-or-nothing.  After a failed
\* creation the constructor never completes, and what it had put into the
\* queue stays as it is; while the constructor has not returned no session
\* and no static operation exists that could use the pool; and the service
\* starts only on a pool that waits with exactly pool_size sets.
C31_AllOrNothing ==
    /\ [](ctor = "raised" => shut = "loading")
    /\ [](shut = "loading" =>
             /\ nextId = 1
             /\ faceop = NoFaceOp
             /\ \A p \in Streams : models[p] = NoneV /\ drv[p] = "none")
    /\ [][ctor = "raised" => (ctor' = "raised" /\ pool' = pool)]_vars
    /\ [][(shut = "loading" /\ shut' # "loading")
             => /\ shut' = "run"
                /\ ctor = "built"
                /\ Len(pool) = pool_size
                /\ pool = [i \in 1..pool_size |-> i]]_vars

\* of two sets to create, the first waits in the queue and a creation for
\* the second has failed
C31_Witness ==
    /\ pool_size = 2
    /\ ctor = "raised"
    /\ Len(pool) = 1

\* C40: a register_face or recognize_face call puts back the set it acquired
\* exactly once on every way out (result, empty result, validation error,
\* exception) and puts nothing back when acquire returned None: when the
\* call ends it has put back as many sets as it took, and its last step
\* changes the pool by exactly the set it held.
C40_FaceOpReleasesOnce ==
    /\ [](/\ faceop.got <= 1
          /\ faceop.put <= faceop.got
          /\ faceop.pc = "idle" => faceop.put = faceop.got
          /\ faceop.pc \in {"work", "finally"} =>
                /\ faceop.put = 0
                /\ faceop.got = 1 <=> faceop.models # NoneV
          /\ faceop.out = "busy" => faceop.got = 0)
    /\ [][(faceop.pc = "finally" /\ faceop'.pc = "idle")
             => pool' = IF faceop.got = 1 THEN Append(pool, faceop.models) ELSE pool
       ]_vars

\* a call has ended on an exception after putting back the set it held
\* while a session was waiting for a set
C40_Witness ==
    /\ faceop.pc = "idle"
    /\ faceop.out = "error"
    /\ faceop.got = 1
    /\ faceop.put = 1
    /\ \E p \in Streams : drv[p] = "acquire"

====
